---- MODULE Spec2Model ----
(***************************************************************************)
(* Model of visual-analysis-tool.js: the VisualAnalyzer class (constructor, *)
(* analyze and its four phases) and the standalone entry point.            *)
(*                                                                         *)
(* The filesystem is the environment: the baseline directory either does   *)
(* not exist or holds a set of named entries, each with a byte size.       *)
(* Console output is a sequence of records, one per console.log call (or   *)
(* per fixed block of calls), tagged by the line that is printed.          *)
(***************************************************************************)
EXTENDS Integers, Sequences, FiniteSets, TLC

\* Number of analyze() calls a caller makes on one analyzer instance.
MaxRuns == 2

(***************************************************************************)
(* Configuration (constructor, lines 14-20)                                *)
(***************************************************************************)
baselinesDir == "visual-tests/baselines"

devices == <<"Mobile", "Mobile-Large", "Tablet", "Desktop">>

\* The literal page list of the constructor.
ReferencePages ==
  <<"addpagehere", "addpagehere", "addpagehere", "addpagehere", "addpagehere">>

\* A hand-edited page list, as the comment on line 17 asks the operator to
\* write one.
EditedPages == <<"home", "navbar">>

PageConfigs == {ReferencePages, EditedPages}

(***************************************************************************)
(* Filesystem contents the model ranges over                               *)
(***************************************************************************)
Sizes == {0, 100, 300, 301}

\* Byte sizes of the entries outside the reference page list.
ExtraSizes == {100}

Range(s) == {s[k] : k \in DOMAIN s}

\* `${device}-${page}-baseline.png`
BaselineFilename(device, page) == device \o "-" \o page \o "-baseline.png"

\* path.join(this.baselinesDir, filename)
join(dir, filename) == dir \o "/" \o filename

ReferenceFiles == {BaselineFilename(d, "addpagehere") : d \in Range(devices)}

ExtraFiles == {"Mobile-navbar-baseline.png", "Desktop-home-baseline.png"}

HomepageFiles == {BaselineFilename(d, "homepage") : d \in Range(devices)}

\* Screenshots of a homepage: none, or one per device.
HomepageSets == {{}, HomepageFiles}

EmptyDir == [n \in {} |-> 0]

Directories ==
  { r @@ e @@ h :
      r \in UNION {[S -> Sizes] : S \in SUBSET ReferenceFiles},
      e \in UNION {[S -> ExtraSizes] : S \in SUBSET ExtraFiles},
      h \in UNION {[S -> ExtraSizes] : S \in HomepageSets} }

VARIABLES
  standalone,   \* require.main === module
  pages,        \* this.pages
  dirExists,    \* whether visual-tests/baselines exists
  files,        \* entries of visual-tests/baselines: name -> byte size
  issues,       \* this.issues
  out,          \* standard output
  err,          \* standard error
  pc,           \* position of the running code
  runs,         \* number of analyze() calls made so far
  results,      \* settled promises of the analyze() calls, in call order
  sizes,        \* analyzeSizes: const sizes
  pageIdx,      \* position of the running forEach over this.pages
  deviceIdx,    \* position of the running forEach over this.devices
  missing,      \* checkMissingFiles: let missing
  phaseStart,   \* this.issues.length at the call of each phase of this run
  exitCode      \* exit status of the process, -1 while it is running

vars == <<standalone, pages, dirExists, files, issues, out, err, pc, runs,
          results, sizes, pageIdx, deviceIdx, missing, phaseStart, exitCode>>

(***************************************************************************)
(* fs and String helpers                                                   *)
(***************************************************************************)
\* fs.existsSync(path.join(baselinesDir, filename))
existsSync(filepath) ==
  /\ dirExists
  /\ \E n \in DOMAIN files : join(baselinesDir, n) = filepath

\* fs.statSync(filepath).size
statSize(filepath) ==
  files[CHOOSE n \in DOMAIN files : join(baselinesDir, n) = filepath]

\* String.prototype.includes
includes(s, sub) ==
  \E k \in 1..(Len(s) - Len(sub) + 1) : SubSeq(s, k, k + Len(sub) - 1) = sub

\* Array.prototype.unshift, where push is meant.
unshift(list, item) == <<item>> \o list

\* Array.prototype.push
push(list, item) == Append(list, item)

Init ==
  /\ standalone \in BOOLEAN
  /\ pages \in PageConfigs
  /\ dirExists \in BOOLEAN
  /\ files \in Directories
  /\ (~dirExists => files = EmptyDir)
  /\ issues = <<>>
  /\ out = <<>>
  /\ err = <<>>
  /\ pc = "idle"
  /\ runs = 0
  /\ results = <<>>
  /\ sizes = EmptyDir
  /\ pageIdx = 0
  /\ deviceIdx = 0
  /\ missing = 0
  /\ phaseStart = <<>>
  /\ exitCode = -1

(***************************************************************************)
(* analyze (lines 22-39)                                                   *)
(***************************************************************************)
\* The missing-file check called before the size analysis.
PhaseOrder_missingFirst ==
  <<"checkMissingFiles", "analyzeSizes", "analyzeLayoutPatterns",
    "generateRecommendations">>

\* The calls of analyze, in the order of its statements.
PhaseOrder ==
  <<"analyzeSizes", "checkMissingFiles", "analyzeLayoutPatterns",
    "generateRecommendations">>

\* Where control goes when a phase returns to analyze.
After(phase) ==
  LET k == CHOOSE n \in 1..Len(PhaseOrder) : PhaseOrder[n] = phase
  IN  IF k < Len(PhaseOrder) THEN PhaseOrder[k + 1] ELSE "return"

Log(lines) == out' = out \o lines

\* analyze starting from an empty issue list on every call.
analyze_resetting ==
  /\ \/ pc = "idle"
     \/ ~standalone /\ pc \in {"fulfilled", "rejected"}
  /\ runs < (IF standalone THEN 1 ELSE MaxRuns)
  /\ runs' = runs + 1
  /\ issues' = <<>>
  /\ out' = out \o <<[line |-> "Starting"], [line |-> "StandardsCheck"]>>
  /\ phaseStart' = <<>>
  /\ pc' = PhaseOrder[1]
  /\ UNCHANGED <<standalone, pages, dirExists, files, err, results, sizes,
                 pageIdx, deviceIdx, missing, exitCode>>

\* The caller of analyze: the entry point calls it once, an importing
\* module may call it again on the same instance once the promise settled.
analyze ==
  /\ \/ pc = "idle"
     \/ ~standalone /\ pc \in {"fulfilled", "rejected"}
  /\ runs < (IF standalone THEN 1 ELSE MaxRuns)
  /\ runs' = runs + 1
  /\ Log(<<[line |-> "Starting"], [line |-> "StandardsCheck"]>>)
  /\ phaseStart' = <<>>
  /\ pc' = PhaseOrder[1]
  /\ UNCHANGED <<standalone, pages, dirExists, files, issues, err, results,
                 sizes, pageIdx, deviceIdx, missing, exitCode>>

\* return this.issues
analyzeReturn ==
  /\ pc = "return"
  /\ results' = Append(results, [status |-> "fulfilled", value |-> issues])
  /\ pc' = "fulfilled"
  /\ UNCHANGED <<standalone, pages, dirExists, files, issues, out, err, runs,
                 sizes, pageIdx, deviceIdx, missing, phaseStart, exitCode>>

(***************************************************************************)
(* Phase 1: analyzeSizes (lines 41-94)                                     *)
(***************************************************************************)
\* The first forEach: sizes[page][device] = stats.size for existing files.
CollectSizes ==
  [p \in Range(pages) |->
     [d \in {e \in Range(devices) :
               existsSync(join(baselinesDir, BaselineFilename(e, p)))} |->
        statSize(join(baselinesDir, BaselineFilename(d, p)))]]

\* Object.keys of a page's size map: insertion order is device order.
Keys(pageSizes) == SelectSeq(devices, LAMBDA d : d \in DOMAIN pageSizes)

\* Object.values(pageSizes)
Values(pageSizes) ==
  [k \in 1..Len(Keys(pageSizes)) |-> pageSizes[Keys(pageSizes)[k]]]

\* Math.max(...a), Math.min(...a) for a non-empty array
MathMax(a) == CHOOSE m \in Range(a) : \A x \in Range(a) : x <= m
MathMin(a) == CHOOSE m \in Range(a) : \A x \in Range(a) : m <= x

\* max / min in floating point: a finite quotient (integer part q and
\* remainder r of the division), Infinity for x/0, NaN for 0/0.
Divide(max, min) ==
  IF min = 0
  THEN [kind |-> IF max = 0 THEN "NaN" ELSE "Infinity", q |-> 0, r |-> 0, d |-> 0]
  ELSE [kind |-> "finite", q |-> max \div min, r |-> max % min, d |-> min]

\* ratio >= 3
RatioAtLeast3(ratio) ==
  CASE ratio.kind = "NaN" -> FALSE
    [] ratio.kind = "Infinity" -> TRUE
    [] OTHER -> ratio.q >= 3

\* ratio > 3
RatioAbove3(ratio) ==
  CASE ratio.kind = "NaN" -> FALSE
    [] ratio.kind = "Infinity" -> TRUE
    [] OTHER -> ratio.q > 3 \/ (ratio.q = 3 /\ ratio.r > 0)

\* ratio.toFixed(1): nearest tenth, the larger one on a tie.
toFixed1(ratio) ==
  IF ratio.kind # "finite" THEN ratio.kind
  ELSE LET tenths == (20 * (ratio.q * ratio.d + ratio.r) + ratio.d) \div (2 * ratio.d)
       IN  ToString(tenths \div 10) \o "." \o ToString(tenths % 10)

\* this.devices.filter(d => !pageSizes[d]): undefined and 0 are both falsy.
FalsyDevices(pageSizes) ==
  SelectSeq(devices, LAMBDA d : d \notin DOMAIN pageSizes \/ pageSizes[d] = 0)

\* lines 64-72
CoverageIssues(page, pageSizes) ==
  IF Cardinality(DOMAIN pageSizes) < 4
  THEN <<[type |-> "MISSING_DEVICE_SUPPORT",
          page |-> page,
          severity |-> "HIGH",
          description |-> page \o " page missing on some devices",
          devices |-> FalsyDevices(pageSizes)]>>
  ELSE <<>>

\* lines 75-90
RatioIssues(page, pageSizes) ==
  LET sizes_array == Values(pageSizes)
  IN  IF Len(sizes_array) > 1
      THEN LET ratio == Divide(MathMax(sizes_array), MathMin(sizes_array))
           IN  IF RatioAbove3(ratio)
               THEN <<[type |-> "LAYOUT_INCONSISTENCY",
                       page |-> page,
                       severity |-> "MEDIUM",
                       description |->
                         "Extreme content differences across devices ("
                           \o toFixed1(ratio) \o "x variation)",
                       sizes |-> pageSizes]>>
               ELSE <<>>
      ELSE <<>>

RECURSIVE pushAll(_, _)
pushAll(list, items) ==
  IF items = <<>> THEN list
  ELSE pushAll(push(list, Head(items)), Tail(items))

\* lines 42-57
analyzeSizes ==
  /\ pc = "analyzeSizes"
  /\ phaseStart' = Append(phaseStart, Len(issues))
  /\ Log(<<[line |-> "AnalyzingSizes"]>>)
  /\ sizes' = CollectSizes
  /\ pageIdx' = 1
  /\ pc' = "analyzeSizes_forEach"
  /\ UNCHANGED <<standalone, pages, dirExists, files, issues, err, runs,
                 results, deviceIdx, missing, exitCode>>

\* one iteration of the forEach of lines 60-91
analyzeSizes_page ==
  /\ pc = "analyzeSizes_forEach"
  /\ pageIdx <= Len(pages)
  /\ LET page == pages[pageIdx]
         pageSizes == sizes[page]
     IN  issues' = pushAll(issues, CoverageIssues(page, pageSizes)
                                     \o RatioIssues(page, pageSizes))
  /\ pageIdx' = pageIdx + 1
  /\ UNCHANGED <<standalone, pages, dirExists, files, out, err, pc, runs,
                 results, sizes, deviceIdx, missing, phaseStart, exitCode>>

\* line 93
analyzeSizes_end ==
  /\ pc = "analyzeSizes_forEach"
  /\ pageIdx > Len(pages)
  /\ Log(<<[line |-> "SizeAnalysisComplete", found |-> Len(issues)]>>)
  /\ pc' = After("analyzeSizes")
  /\ UNCHANGED <<standalone, pages, dirExists, files, issues, err, runs,
                 results, sizes, pageIdx, deviceIdx, missing, phaseStart,
                 exitCode>>

(***************************************************************************)
(* Phase 2: checkMissingFiles (lines 96-120)                               *)
(***************************************************************************)
\* lines 97-99
checkMissingFiles ==
  /\ pc = "checkMissingFiles"
  /\ phaseStart' = Append(phaseStart, Len(issues))
  /\ Log(<<[line |-> "CheckingMissing"]>>)
  /\ missing' = 0
  /\ deviceIdx' = 1
  /\ pageIdx' = 1
  /\ pc' = "checkMissingFiles_forEach"
  /\ UNCHANGED <<standalone, pages, dirExists, files, issues, err, runs,
                 results, sizes, exitCode>>

\* The issue with its device and page fields exchanged.
MissingBaselineIssue_exchanged(device, page, filename) ==
  [type |-> "MISSING_BASELINE",
   page |-> device,
   device |-> page,
   severity |-> "HIGH",
   description |-> "Missing baseline for " \o device \o " " \o page,
   filename |-> filename]

\* lines 107-114
MissingBaselineIssue(device, page, filename) ==
  [type |-> "MISSING_BASELINE",
   page |-> page,
   device |-> device,
   severity |-> "HIGH",
   description |-> "Missing baseline for " \o device \o " " \o page,
   filename |-> filename]

\* one iteration of the inner forEach of lines 101-116
checkMissingFiles_pair ==
  /\ pc = "checkMissingFiles_forEach"
  /\ deviceIdx <= Len(devices)
  /\ pageIdx <= Len(pages)
  /\ LET device == devices[deviceIdx]
         page == pages[pageIdx]
         filename == BaselineFilename(device, page)
         filepath == join(baselinesDir, filename)
     IN  IF ~existsSync(filepath)
         THEN /\ missing' = missing + 1
              /\ issues' = push(issues, MissingBaselineIssue(device, page, filename))
         ELSE UNCHANGED <<missing, issues>>
  /\ IF pageIdx < Len(pages)
     THEN pageIdx' = pageIdx + 1 /\ deviceIdx' = deviceIdx
     ELSE pageIdx' = 1 /\ deviceIdx' = deviceIdx + 1
  /\ UNCHANGED <<standalone, pages, dirExists, files, out, err, pc, runs,
                 results, sizes, phaseStart, exitCode>>

\* line 119
checkMissingFiles_end ==
  /\ pc = "checkMissingFiles_forEach"
  /\ deviceIdx > Len(devices)
  /\ Log(<<[line |-> "FileCheckComplete", missing |-> missing]>>)
  /\ pc' = After("checkMissingFiles")
  /\ UNCHANGED <<standalone, pages, dirExists, files, issues, err, runs,
                 results, sizes, pageIdx, deviceIdx, missing, phaseStart,
                 exitCode>>

(***************************************************************************)
(* Phase 3: analyzeLayoutPatterns (lines 122-150)                          *)
(***************************************************************************)
\* A listing that is empty, not an error, for a directory that is missing.
readdirSync_lenient(dir) ==
  [threw |-> FALSE, names |-> IF dirExists THEN DOMAIN files ELSE {}]

\* fs.readdirSync(this.baselinesDir): the entry names, or ENOENT thrown.
readdirSync(dir) ==
  IF dirExists
  THEN [threw |-> FALSE, names |-> DOMAIN files]
  ELSE [threw |-> TRUE,
        error |-> [code |-> "ENOENT", syscall |-> "scandir", path |-> dir]]

\* Either substring taken as enough.
mobileNavFiles_either(names) ==
  {file \in names : includes(file, "nav") \/ includes(file, "Mobile")}

\* lines 126-127
mobileNavFiles(names) ==
  {file \in names : includes(file, "nav") /\ includes(file, "Mobile")}

\* lines 138-139
homepageFiles(names) ==
  {file \in names : includes(file, "homepage") /\ includes(file, "baseline")}

\* lines 129-135
MobileNavIssues(names) ==
  IF Cardinality(mobileNavFiles(names)) = 0
  THEN <<[type |-> "MOBILE_NAV_MISSING",
          severity |-> "HIGH",
          description |->
            "No mobile navigation screenshots found - hamburger menu testing required"]>>
  ELSE <<>>

\* The homepage issue at severity LOW.
HomepageIssues_low(names) ==
  IF Cardinality(homepageFiles(names)) < 4
  THEN <<[type |-> "INCOMPLETE_HOMEPAGE_TESTING",
          severity |-> "LOW",
          description |-> "Homepage not tested on all device sizes"]>>
  ELSE <<>>

\* lines 141-147
HomepageIssues(names) ==
  IF Cardinality(homepageFiles(names)) < 4
  THEN <<[type |-> "INCOMPLETE_HOMEPAGE_TESTING",
          severity |-> "MEDIUM",
          description |-> "Homepage not tested on all device sizes"]>>
  ELSE <<>>

\* The whole phase: it has no loop of its own.  A throw of readdirSync
\* leaves the async function analyze, whose promise is rejected.
analyzeLayoutPatterns ==
  /\ pc = "analyzeLayoutPatterns"
  /\ phaseStart' = Append(phaseStart, Len(issues))
  /\ LET listing == readdirSync(baselinesDir)
     IN  IF listing.threw
         THEN /\ Log(<<[line |-> "AnalyzingPatterns"]>>)
              /\ results' = Append(results, [status |-> "rejected",
                                             reason |-> listing.error])
              /\ pc' = "rejected"
              /\ UNCHANGED issues
         ELSE /\ Log(<<[line |-> "AnalyzingPatterns"],
                       [line |-> "PatternAnalysisComplete"]>>)
              /\ issues' = pushAll(issues, MobileNavIssues(listing.names)
                                             \o HomepageIssues(listing.names))
              /\ pc' = After("analyzeLayoutPatterns")
              /\ UNCHANGED results
  /\ UNCHANGED <<standalone, pages, dirExists, files, err, runs, sizes,
                 pageIdx, deviceIdx, missing, exitCode>>

(***************************************************************************)
(* Phase 4: generateRecommendations (lines 152-202)                        *)
(***************************************************************************)
\* this.issues.filter(i => i.severity === severity)
BySeverity(list, severity) == SelectSeq(list, LAMBDA i : i.severity = severity)

\* Array.prototype.join
RECURSIVE Join(_, _)
Join(a, sep) ==
  IF Len(a) = 0 THEN ""
  ELSE IF Len(a) = 1 THEN a[1]
  ELSE a[1] \o sep \o Join(Tail(a), sep)

\* lines 161-164: the numbered line of every critical issue and, beneath
\* it, the devices of an issue that has a devices field.
RECURSIVE CriticalLines(_, _)
CriticalLines(critical, k) ==
  IF k > Len(critical) THEN <<>>
  ELSE <<[line |-> "Issue", n |-> k, type |-> critical[k].type,
          description |-> critical[k].description]>>
       \o (IF "devices" \in DOMAIN critical[k]
           THEN <<[line |-> "MissingDevices",
                   text |-> Join(critical[k].devices, ", ")]>>
           ELSE <<>>)
       \o CriticalLines(critical, k + 1)

\* lines 167-169
MediumLines(medium) ==
  [k \in 1..Len(medium) |->
     [line |-> "Issue", n |-> k, type |-> medium[k].type,
      description |-> medium[k].description]]

\* The three blocks of fixed recommendation text are one entry each.
generateRecommendations ==
  /\ pc = "generateRecommendations"
  /\ phaseStart' = Append(phaseStart, Len(issues))
  /\ LET critical == BySeverity(issues, "HIGH")
         medium == BySeverity(issues, "MEDIUM")
         low == BySeverity(issues, "LOW")
     IN  Log(<<[line |-> "GeneratingRecommendations"],
               [line |-> "CriticalHeader"]>>
             \o CriticalLines(critical, 1)
             \o <<[line |-> "MediumHeader"]>>
             \o MediumLines(medium)
             \o <<[line |-> "RecommendedFixesHeader"]>>
             \o (IF Len(critical) > 0
                 THEN <<[line |-> "MobileFirstFixes"]>> ELSE <<>>)
             \o (IF Len(medium) > 0
                 THEN <<[line |-> "LayoutConsistencyFixes"]>> ELSE <<>>)
             \o <<[line |-> "PerformanceOptimizations"],
                  [line |-> "AnalysisSummary",
                   critical |-> Len(critical),
                   medium |-> Len(medium),
                   total |-> Len(issues),
                   devices |-> Len(devices),
                   pages |-> Len(pages)]>>)
  /\ pc' = After("generateRecommendations")
  /\ UNCHANGED <<standalone, pages, dirExists, files, issues, err, runs,
                 results, sizes, pageIdx, deviceIdx, missing, exitCode>>

(***************************************************************************)
(* Entry point (lines 209-214)                                             *)
(***************************************************************************)
\* .then(() => console.log(...))
thenHandler ==
  /\ standalone
  /\ pc = "fulfilled"
  /\ Log(<<[line |-> "VisualAnalysisComplete"]>>)
  /\ pc' = "handled"
  /\ UNCHANGED <<standalone, pages, dirExists, files, issues, err, runs,
                 results, sizes, pageIdx, deviceIdx, missing, phaseStart,
                 exitCode>>

\* No catch handler: the runtime prints the unhandled rejection and exits
\* with status 1.
catchHandler_uncaught ==
  /\ standalone
  /\ pc = "rejected"
  /\ err' = Append(err, results[Len(results)].reason)
  /\ exitCode' = 1
  /\ pc' = "exited"
  /\ UNCHANGED <<standalone, pages, dirExists, files, issues, out, runs,
                 results, sizes, pageIdx, deviceIdx, missing, phaseStart>>

\* .catch(console.error): the rejection is handled, its reason is printed.
catchHandler ==
  /\ standalone
  /\ pc = "rejected"
  /\ err' = Append(err, results[Len(results)].reason)
  /\ pc' = "handled"
  /\ UNCHANGED <<standalone, pages, dirExists, files, issues, out, runs,
                 results, sizes, pageIdx, deviceIdx, missing, phaseStart,
                 exitCode>>

\* Nothing is left to run and no failure is uncaught: the runtime exits
\* with its default status.
processExit ==
  /\ standalone
  /\ pc = "handled"
  /\ exitCode' = 0
  /\ pc' = "exited"
  /\ UNCHANGED <<standalone, pages, dirExists, files, issues, out, err, runs,
                 results, sizes, pageIdx, deviceIdx, missing, phaseStart>>

Next ==
  \/ analyze
  \/ analyzeSizes
  \/ analyzeSizes_page
  \/ analyzeSizes_end
  \/ checkMissingFiles
  \/ checkMissingFiles_pair
  \/ checkMissingFiles_end
  \/ analyzeLayoutPatterns
  \/ generateRecommendations
  \/ analyzeReturn
  \/ thenHandler
  \/ catchHandler
  \/ processExit

Spec == Init /\ [][Next]_vars

(***************************************************************************)
(* Properties                                                              *)
(***************************************************************************)
IsPrefix(a, b) == Len(a) <= Len(b) /\ SubSeq(b, 1, Len(a)) = a

\* The baseline of a device and a page is an entry of the directory.
FileThere(device, page) ==
  dirExists /\ (device \o "-" \o page \o "-baseline.png") \in DOMAIN files

SizeThere(device, page) == files[device \o "-" \o page \o "-baseline.png"]

\* The n-th phase of the running analyze call has just returned to analyze.
\* The issue list is append-only, so what holds of the issues of a phase
\* when it returns holds of them ever after.
Finished(n) ==
  /\ Len(phaseStart) = n
  /\ pc \in Range(PhaseOrder) \cup {"return"}

\* The issues the n-th phase of this call has appended so far.
Added(n) == SubSeq(issues, phaseStart[n] + 1, Len(issues))

\* The positions of device list x page list, devices outer, pages inner.
Positions ==
  [k \in 1..(Len(devices) * Len(pages)) |->
     [device |-> devices[((k - 1) \div Len(pages)) + 1],
      page |-> pages[((k - 1) % Len(pages)) + 1]]]

AbsentPositions == SelectSeq(Positions, LAMBDA c : ~FileThere(c.device, c.page))

\* C1: when checkMissingFiles returns, the issues it appended are one
\* MISSING_BASELINE issue of severity HIGH per position of device list x
\* page list whose file is absent and none for the others, in device-outer /
\* page-inner order, each with that device, that page and the filename
\* {device}-{page}-baseline.png; the printed count is their number; 4 devices
\* x 5 pages and no file give 20 of them.  While the phase runs, what it
\* has appended is a prefix of that.
C1_MissingBaselinePerAbsentPosition ==
  Len(phaseStart) = 2 =>
    LET added == Added(2)
        absent == AbsentPositions
    IN  /\ Len(added) <= Len(absent)
        /\ \A k \in 1..Len(added) :
             /\ added[k].type = "MISSING_BASELINE"
             /\ added[k].severity = "HIGH"
             /\ added[k].device = absent[k].device
             /\ added[k].page = absent[k].page
             /\ added[k].filename =
                  absent[k].device \o "-" \o absent[k].page \o "-baseline.png"
        /\ Finished(2) =>
             /\ Len(added) = Len(absent)
             /\ out[Len(out)] = [line |-> "FileCheckComplete",
                                 missing |-> Len(added)]
             /\ (Len(pages) = 5 /\ Len(absent) = Len(devices) * Len(pages)) =>
                  Len(added) = 20

\* C1 witness: the phase returned on a directory where some baselines of
\* the page list exist and others do not.
C1_Witness ==
  /\ Finished(2)
  /\ Len(Added(2)) > 0
  /\ Len(Added(2)) < Len(devices) * Len(pages)

\* Devices with no recorded size for a page: their file is absent.
NoRecordedSize(page) == SelectSeq(devices, LAMBDA d : ~FileThere(d, page))

\* C2: when analyzeSizes returns, it has appended a MISSING_DEVICE_SUPPORT
\* issue of severity HIGH exactly for the pages with fewer recorded sizes
\* than configured devices, and the devices field of each is exactly the
\* configured devices without a recorded size, in configured order,
\* whatever the file sizes (0 bytes included).
C2_CoverageListsDevicesWithoutSize ==
  Finished(1) =>
    LET coverage ==
          SelectSeq(Added(1), LAMBDA i : i.type = "MISSING_DEVICE_SUPPORT")
        gaps == SelectSeq(pages, LAMBDA p : Len(NoRecordedSize(p)) > 0)
    IN  /\ Len(coverage) = Len(gaps)
        /\ \A k \in 1..Len(coverage) :
             /\ coverage[k].severity = "HIGH"
             /\ coverage[k].page = gaps[k]
             /\ coverage[k].devices = NoRecordedSize(gaps[k])

\* Devices whose baseline of the page exists.
Recorded(page) == {d \in Range(devices) : FileThere(d, page)}

\* Some recorded size of the page is more than 3 times another one.
Above3(page) ==
  \E a, b \in Recorded(page) :
    a # b /\ SizeThere(a, page) > 3 * SizeThere(b, page)

RatioAdded == SelectSeq(Added(1), LAMBDA i : i.type = "LAYOUT_INCONSISTENCY")

\* C3: when analyzeSizes returns, it has appended a LAYOUT_INCONSISTENCY
\* issue of severity MEDIUM, carrying the page's device-to-size map, exactly
\* for the pages where at least two devices have a recorded size and the
\* largest is strictly more than 3 times the smallest: sizes 100 and 300
\* give none, 100 and 301 give one, fewer than two sizes give none.
C3_RatioIssueIffMaxAbove3Min ==
  Finished(1) =>
    LET ratio == RatioAdded
        above == SelectSeq(pages, LAMBDA p : Above3(p))
    IN  /\ Len(ratio) = Len(above)
        /\ \A k \in 1..Len(ratio) :
             /\ ratio[k].severity = "MEDIUM"
             /\ ratio[k].page = above[k]
             /\ DOMAIN ratio[k].sizes = Recorded(above[k])
             /\ \A d \in Recorded(above[k]) :
                  ratio[k].sizes[d] = SizeThere(d, above[k])
        /\ \A p \in Range(pages) :
             LET recordedSizes == {SizeThere(d, p) : d \in Recorded(p)}
                 has == \E k \in 1..Len(ratio) : ratio[k].page = p
             IN  /\ Cardinality(Recorded(p)) < 2 => ~has
                 /\ recordedSizes = {100, 300} => ~has
                 /\ recordedSizes = {100, 301} => has

\* C3 witness: the phase returned having reported a page whose recorded
\* sizes are 100 and 301.
C3_Witness ==
  /\ Finished(1)
  /\ \E k \in 1..Len(RatioAdded) :
       {RatioAdded[k].sizes[d] : d \in DOMAIN RatioAdded[k].sizes} = {100, 301}

\* What analyze prints before it calls readdirSync for the first time.
LinesBeforeListing ==
  <<"Starting", "StandardsCheck", "AnalyzingSizes", "SizeAnalysisComplete",
    "CheckingMissing", "FileCheckComplete", "AnalyzingPatterns">>

ENOENT ==
  [code |-> "ENOENT", syscall |-> "scandir", path |-> "visual-tests/baselines"]

C5_FailedRunExitsNonZero ==
  (standalone /\ pc = "exited") =>
    /\ results[1].status = "rejected" => (err # <<>> /\ exitCode # 0)
    /\ exitCode = 0 => results[1].status = "fulfilled"

\* C5, amended: a failed standalone run prints the error to standard error
\* from its catch handler and prints no completion line; the rejection is
\* thereby handled, and the process exits with status zero, as it does
\* after a run that did not fail (which prints the completion line and
\* nothing to standard error).
C5_FailedRunIsCaughtAndExitsZero ==
  (standalone /\ pc = "exited") =>
    /\ exitCode = 0
    /\ Len(results) = 1
    /\ results[1].status = "rejected" =>
         /\ err = <<ENOENT>>
         /\ \A k \in 1..Len(out) : out[k].line # "VisualAnalysisComplete"
    /\ results[1].status = "fulfilled" =>
         /\ err = <<>>
         /\ out[Len(out)].line = "VisualAnalysisComplete"

\* C5 witness: a standalone run on a missing directory has exited.
C5_Witness ==
  /\ standalone
  /\ ~dirExists
  /\ pc = "exited"

\* C6: every issue ever appended has severity HIGH or MEDIUM, and when a
\* call of analyze completes, the Total Issues count of its summary is the
\* length of the returned list and is Critical Issues + Medium Issues.
C6_SummaryCountsAgree ==
  /\ \A k \in 1..Len(issues) : issues[k].severity \in {"HIGH", "MEDIUM"}
  /\ pc \in {"return", "fulfilled"} =>
       LET summary == out[Len(out)]
       IN  /\ summary.line = "AnalysisSummary"
           /\ summary.total = Len(issues)
           /\ summary.total = summary.critical + summary.medium
           /\ pc = "fulfilled" =>
                summary.total = Len(results[Len(results)].value)

\* C6 witness: a call completed with critical and medium issues.
C6_Witness ==
  /\ pc = "fulfilled"
  /\ out[Len(out)].line = "AnalysisSummary"
  /\ out[Len(out)].critical > 0
  /\ out[Len(out)].medium > 0

\* The phase an issue type comes from.
PhaseOf(type) ==
  CASE type \in {"MISSING_DEVICE_SUPPORT", "LAYOUT_INCONSISTENCY"} -> 1
    [] type = "MISSING_BASELINE" -> 2
    [] type \in {"MOBILE_NAV_MISSING", "INCOMPLETE_HOMEPAGE_TESTING"} -> 3

\* The first line each phase prints, and the line after which it may come.
PhaseOpening ==
  [AnalyzingSizes |-> "StandardsCheck",
   CheckingMissing |-> "SizeAnalysisComplete",
   AnalyzingPatterns |-> "FileCheckComplete",
   GeneratingRecommendations |-> "PatternAnalysisComplete"]

\* The issues appended by the running (or last) call of analyze.
RunIssues ==
  IF phaseStart = <<>> THEN <<>>
  ELSE SubSeq(issues, phaseStart[1] + 1, Len(issues))

RECURSIVE IsSubseq(_, _)
IsSubseq(a, b) ==
  IF a = <<>> THEN TRUE
  ELSE IF b = <<>> THEN FALSE
  ELSE IF Head(a) = Head(b) THEN IsSubseq(Tail(a), Tail(b))
  ELSE IsSubseq(a, Tail(b))

\* Per configured page, in order: its coverage issue, then its ratio issue.
PageSlots ==
  [k \in 1..(2 * Len(pages)) |->
     <<pages[(k + 1) \div 2],
       IF k % 2 = 1 THEN "MISSING_DEVICE_SUPPORT" ELSE "LAYOUT_INCONSISTENCY">>]

\* C7: the phases of one analyze call run in the order size analysis,
\* missing-file check, layout-pattern analysis, recommendation generation,
\* each opening right after the previous one's closing line; among the
\* issues of that call every size-analysis issue precedes every
\* MISSING_BASELINE issue, which precedes every layout-pattern issue; and
\* the size-analysis issues follow the configured page order.
C7_PhasesInOrder ==
  /\ \A k \in 1..Len(out) :
       out[k].line \in DOMAIN PhaseOpening =>
         k > 1 /\ out[k - 1].line = PhaseOpening[out[k].line]
  /\ LET run == RunIssues
     IN  \A k \in 1..(Len(run) - 1) :
           PhaseOf(run[k].type) <= PhaseOf(run[k + 1].type)
  /\ Len(phaseStart) = 1 =>
       LET added == Added(1)
       IN  IsSubseq([k \in 1..Len(added) |-> <<added[k].page, added[k].type>>],
                    PageSlots)

\* C7 witness: a call completed with issues of all three issuing phases,
\* on a page list of distinct pages.
C7_Witness ==
  /\ pc = "fulfilled"
  /\ pages = <<"home", "navbar">>
  /\ {PhaseOf(RunIssues[k].type) : k \in 1..Len(RunIssues)} = {1, 2, 3}

\* s is some text, then sub, then some text.
Around(s, sub) ==
  \E k \in 0..(Len(s) - Len(sub)) :
    s = SubSeq(s, 1, k) \o sub \o SubSeq(s, k + Len(sub) + 1, Len(s))

NavIssueAdded ==
  \E k \in 1..Len(Added(3)) : Added(3)[k].type = "MOBILE_NAV_MISSING"

\* C8: when analyzeLayoutPatterns returns, it has appended a
\* MOBILE_NAV_MISSING issue (severity HIGH) if and only if no entry of the
\* directory has both 'nav' and 'Mobile' in its name, whatever the page
\* list: a directory holding only Desktop-home-baseline.png gets the issue,
\* one holding Mobile-navbar-baseline.png does not.
C8_MobileNavIssueIffNoMobileNavFile ==
  Finished(3) =>
    LET added == Added(3)
        has == \E k \in 1..Len(added) : added[k].type = "MOBILE_NAV_MISSING"
    IN  /\ has <=> ~\E f \in DOMAIN files : Around(f, "nav") /\ Around(f, "Mobile")
        /\ \A k \in 1..Len(added) :
             added[k].type = "MOBILE_NAV_MISSING" => added[k].severity = "HIGH"
        /\ DOMAIN files = {"Desktop-home-baseline.png"} => has
        /\ "Mobile-navbar-baseline.png" \in DOMAIN files => ~has

\* C8 witness: the phase returned with the issue on a directory holding
\* only Desktop-home-baseline.png.
C8_Witness ==
  /\ Finished(3)
  /\ DOMAIN files = {"Desktop-home-baseline.png"}
  /\ NavIssueAdded

\* C9: the issue list is empty at construction; every step leaves the list
\* it found as a prefix of the list it leaves; generateRecommendations
\* leaves the list as it is; and what analyze returns is the list as it
\* stood when the third phase returned.
C9_IssueListAppendOnly ==
  /\ issues = <<>>
  /\ [][/\ IsPrefix(issues, issues')
        /\ pc = "generateRecommendations" => issues' = issues
        /\ pc = "return" =>
             /\ results' = Append(results, [status |-> "fulfilled",
                                            value |-> issues])
             /\ Len(issues) = phaseStart[4]]_vars

\* C9 witness: analyze returned a list of several issues.
C9_Witness ==
  /\ pc = "fulfilled"
  /\ Len(results[Len(results)].value) > 1

\* C10: a call of analyze starts from the list the previous call left: the
\* list a later call returns is the list the previous call returned followed
\* by this call's issues, which on the unchanged directory are those of the
\* first call again (the k-th list is k times as long as the first); the
\* k-th "Found N" count and summary total include the earlier calls' issues;
\* only before the first call is the list empty by construction.
C10_SecondCallKeepsFirstResult ==
  /\ runs = 0 => issues = <<>>
  /\ (pc = "fulfilled" /\ Len(results) >= 2) =>
       LET k == Len(results)
           first == results[1].value
           previous == results[k - 1].value
           this == results[k].value
           found == SelectSeq(out, LAMBDA l : l.line = "SizeAnalysisComplete")
           summaries == SelectSeq(out, LAMBDA l : l.line = "AnalysisSummary")
       IN  /\ IsPrefix(previous, this)
           /\ SubSeq(this, Len(previous) + 1, Len(this)) = first
           /\ Len(this) = k * Len(first)
           /\ found[k].found = Len(previous) + found[1].found
           /\ summaries[k].total = k * summaries[1].total

\* C10 witness: a second call on the same instance returned, the first
\* having found issues.
C10_Witness ==
  /\ pc = "fulfilled"
  /\ Len(results) = 2
  /\ Len(results[1].value) > 0
====
